---- MODULE Spec2Model ----
(***************************************************************************)
(* Model of src/client_side.py: the backup client's batch run (main), the  *)
(* per-operation connection scope (request), the request framer            *)
(* (send_request) and the context-sensitive response parser                *)
(* (receive_status, receive_filename, receive_file and the four            *)
(* request_file_* functions).                                              *)
(*                                                                         *)
(* Bytes are integers 0..255, byte strings are sequences of bytes, and a   *)
(* str is a sequence of code points.  The peer is the environment: it      *)
(* picks the response it will send and may close the stream at any time;   *)
(* socket.recv(n) returns any non-empty prefix of at most n bytes of what  *)
(* the peer still has to deliver, or b"" once the peer has closed.         *)
(***************************************************************************)
EXTENDS Integers, Sequences, FiniteSets, TLC

\* ------------------------------------------------------------------ bounds
\* Largest FileSize a modelled response declares.
MaxDeclared == 2
\* Largest number of payload bytes a modelled response carries.
MaxPayload == 3
\* socket.send may accept fewer bytes than given: at most this many fewer.
MaxShort == 1

\* --------------------------------------------------------- program constants
SAVE_FILE == 100
RETRIEVE_FILE == 200
DELETE_FILE == 201
LIST_FILES == 202

FILE_RETRIEVED == 210
FILE_LIST_RETRIEVED == 211
SUCCESS == 212
NO_FILE == 1001
NO_USER_FILES == 1002
SERVER_ERROR == 1003

USER_ID == 4
VERSION == 1
OP == 1
NAME_LEN == 2
FILE_SIZE == 4
STATUS == 2

\* main(): version = 1
version == 1
\* receive_file(): buffer_size = 2 ** 12
buffer_size == 4096

\* ------------------------------------------------------------- byte helpers
Min(a, b) == IF a < b THEN a ELSE b

RECURSIVE Pow256(_)
Pow256(w) == IF w = 0 THEN 1 ELSE 256 * Pow256(w - 1)

\* struct.pack("<H"/"<I", n): n as w little-endian bytes.
PackLE(n, w) == [i \in 1..w |-> (n \div Pow256(i - 1)) % 256]

\* struct.unpack("<H"/"<I", b)[0]: the little-endian value of the bytes b.
RECURSIVE UnpackLE(_)
UnpackLE(b) == IF b = <<>> THEN 0 ELSE Head(b) + 256 * UnpackLE(Tail(b))

\* int.from_bytes(b, byteorder='big')
RECURSIVE FromBytesBig(_)
FromBytesBig(b) ==
    IF b = <<>> THEN 0
    ELSE Head(b) * Pow256(Len(b) - 1) + FromBytesBig(Tail(b))

Take(s, k) == SubSeq(s, 1, k)
Drop(s, k) == SubSeq(s, k + 1, Len(s))

\* str.encode(): UTF-8 of a sequence of code points (below U+0800).
RECURSIVE Utf8Encode(_)
Utf8Encode(s) ==
    IF s = <<>> THEN <<>>
    ELSE (IF Head(s) < 128 THEN <<Head(s)>>
          ELSE <<192 + (Head(s) \div 64), 128 + (Head(s) % 64)>>)
         \o Utf8Encode(Tail(s))

\* bytes.decode(): [ok, str]; ok is FALSE where Python raises
\* UnicodeDecodeError.  One- and two-byte forms are decoded; every other
\* lead byte is rejected (no longer form occurs within the bounds).
RECURSIVE Utf8Decode(_)
Utf8Decode(b) ==
    IF b = <<>> THEN [ok |-> TRUE, str |-> <<>>]
    ELSE IF Head(b) < 128
    THEN LET r == Utf8Decode(Tail(b))
         IN  [ok |-> r.ok, str |-> <<Head(b)>> \o r.str]
    ELSE IF /\ Head(b) >= 194 /\ Head(b) <= 223 /\ Len(b) >= 2
            /\ b[2] >= 128 /\ b[2] <= 191
    THEN LET r == Utf8Decode(Drop(b, 2))
         IN  [ok |-> r.ok, str |-> <<(Head(b) - 192) * 64 + (b[2] - 128)>> \o r.str]
    ELSE [ok |-> FALSE, str |-> <<>>]

\* ------------------------------------------------------------------- inputs
\* str values used as file names.
NameC == <<99>>
NameE == <<233>>
NameA == <<97>>
NameAB == <<97, 98>>
NameTmp == <<116, 109, 112>>
NameEmpty == <<>>

\* os.urandom(4): the user ids the model draws from (first byte below 128,
\* so that int.from_bytes(user_id, 'big') stays within TLC's integers).
UserIds == {<<1, 2, 3, 4>>, <<127, 0, 0, 7>>}

\* backup.info and the local files beside it, as main() finds them, with
\* the user ids drawn in that setting (both ids in the shortest run, one in
\* the long ones: no step depends on the id's value).
Setups ==
    { [names |-> <<NameC>>, files |-> <<>>, ids |-> UserIds],
      [names |-> <<NameC, NameE>>, files |-> (NameC :> <<7>>),
       ids |-> {<<1, 2, 3, 4>>}],
      [names |-> <<NameEmpty, NameE>>, files |-> (NameE :> <<7, 8>>),
       ids |-> {<<1, 2, 3, 4>>}] }

\* The seven calls of main(), in order: the request function and, where it
\* takes one, the index into local_filenames of its filename argument.
Batch ==
    << [fn |-> "request_file_list", arg |-> -1],
       [fn |-> "request_file_save", arg |-> 0],
       [fn |-> "request_file_save", arg |-> 1],
       [fn |-> "request_file_list", arg |-> -1],
       [fn |-> "request_file_retrieve", arg |-> 0],
       [fn |-> "request_file_delete", arg |-> 0],
       [fn |-> "request_file_retrieve", arg |-> 0] >>

NumOps == Len(Batch)

\* ------------------------------------------------------------------ the peer
\* Status values a response may carry: the six of ResponseStatus and one
\* outside the enumeration.
OtherStatuses == {300}
Statuses ==
    {FILE_RETRIEVED, FILE_LIST_RETRIEVED, SUCCESS, NO_FILE, NO_USER_FILES,
     SERVER_ERROR} \cup OtherStatuses

\* Payload bytes are taken from the front of this pool (all distinct).
PayloadPool == <<10, 20, 30, 40, 50>>

\* Name fields a response may carry: "ab" or "a", "" and an invalid UTF-8
\* byte.
BadName == <<255>>

NoBody(s) ==
    [status |-> s, hasName |-> FALSE, name |-> <<>>,
     hasFile |-> FALSE, size |-> 0, payload |-> <<>>]
NameBody(s, n) ==
    [status |-> s, hasName |-> TRUE, name |-> n,
     hasFile |-> FALSE, size |-> 0, payload |-> <<>>]
FileBody(s, n, l, m) ==
    [status |-> s, hasName |-> TRUE, name |-> n,
     hasFile |-> TRUE, size |-> l, payload |-> Take(PayloadPool, m)]

\* A listing whose text is one two-byte character (U+00E9).
AccentedListing ==
    [status |-> FILE_LIST_RETRIEVED, hasName |-> TRUE, name |-> NameA,
     hasFile |-> TRUE, size |-> 2, payload |-> Utf8Encode(NameE)]

\* The responses the peer may choose to send.
Responses ==
    {NoBody(s) : s \in Statuses}
    \cup {NameBody(s, NameAB) : s \in Statuses}
    \cup {NameBody(s, n) : s \in {FILE_LIST_RETRIEVED, SUCCESS}, n \in {NameEmpty, BadName}}
    \cup {FileBody(s, NameA, l, m) :
            s \in {FILE_RETRIEVED, FILE_LIST_RETRIEVED},
            l \in 0..MaxDeclared, m \in 0..MaxPayload}
    \cup {FileBody(FILE_LIST_RETRIEVED, NameEmpty, 0, 0),
          FileBody(SERVER_ERROR, NameA, 1, 1),
          AccentedListing}

\* The bytes of a response: [Version:1][Status:2], then [NameLen:2][Name],
\* then [FileSize:4][FileBytes], as far as the response carries them.
NameFrame(r) == IF r.hasName THEN PackLE(Len(r.name), NAME_LEN) \o r.name ELSE <<>>
FileFrame(r) == IF r.hasFile THEN PackLE(r.size, FILE_SIZE) \o r.payload ELSE <<>>
Wire(r) == <<version>> \o PackLE(r.status, STATUS) \o NameFrame(r) \o FileFrame(r)

NoResponse == NoBody(0)

\* -------------------------------------------------------------------- state
VARIABLES
    user_id,          \* main: the 4 bytes of create_unique_user_id()
    local_filenames,  \* main: the lines of backup.info
    wireIds,          \* the UserID fields put on the wire since main() began
    fs,               \* the local file system: file name -> content
    pc,               \* where the client is
    opIdx,            \* main: the call of Batch being made (NumOps + 1: none left)
    attempted,        \* the calls of Batch for which request() was entered
    mainAbort,        \* the exception main()'s own except clause caught
    sockets,          \* the sockets open, each named by the call that made it
    connected,        \* connect() returned on the current socket
    resp,             \* the response the peer chose for this connection
    rest,             \* the bytes of it the client has not read yet
    peerClosed,       \* the peer has closed the stream
    sends,            \* the send() calls made on the current socket
    status,           \* request_file_*: status
    name_len,         \* receive_filename: name_len
    filename,         \* request_file_*: filename
    file_size,        \* receive_file: file_size
    sink,             \* receive_file: the name of the file open for writing
    reads,            \* the recv() calls that returned on the current socket
    stage,            \* the last field the parser set out to receive
    outcome,          \* what the last operation reported
    exc               \* the exception it raised, if any

vars ==
    <<user_id, local_filenames, wireIds, fs, pc, opIdx, attempted, mainAbort, sockets,
      connected, resp, rest, peerClosed, sends, status, name_len, filename,
      file_size, sink, reads, stage, outcome, exc>>

\* Groups for UNCHANGED.
mainVars == <<user_id, local_filenames, wireIds>>
batchVars == <<opIdx, attempted, mainAbort>>
peerVars == <<resp, rest, peerClosed>>
parseVars == <<status, name_len, filename, file_size, sink>>

\* No file is open for writing.
NoSink == <<0>>

Init ==
    /\ \E s \in Setups :
          /\ user_id \in s.ids
          /\ local_filenames = s.names
          /\ fs = s.files
    /\ wireIds = {}
    /\ pc = "main"
    /\ opIdx = 1
    /\ attempted = {}
    /\ mainAbort = "none"
    /\ sockets = {}
    /\ connected = FALSE
    /\ resp = NoResponse
    /\ rest = <<>>
    /\ peerClosed = FALSE
    /\ sends = <<>>
    /\ status = 0
    /\ name_len = 0
    /\ filename = <<>>
    /\ file_size = 0
    /\ sink = NoSink
    /\ reads = <<>>
    /\ stage = "none"
    /\ outcome = "none"
    /\ exc = "none"

\* --------------------------------------------------------------- exceptions
\* Faulty variant: `except OSError`.
CatchesOSErrorOnly(kind) ==
    kind \in {"ConnectionRefusedError", "OSError", "FileNotFoundError"}

\* request(): `except Exception` catches every exception an operation raises
\* (ConnectionRefusedError, OSError and FileNotFoundError are OSErrors;
\* struct.error and UnicodeDecodeError are Exceptions too).
Catches(kind) ==
    kind \in {"ConnectionRefusedError", "OSError", "FileNotFoundError",
              "struct.error", "UnicodeDecodeError"}

\* Faulty variant: a failed operation is tried again on the same socket.
RaiseAndRetry(kind) ==
    /\ pc' = "connect"
    /\ stage' = stage
    /\ exc' = kind
    /\ outcome' = "failed"

\* An exception leaves the request function: request() reports it
\* ("<name> failed:") when its except clause catches it, and lets it through
\* to main() otherwise.  Either way the with block is left next.
Raise(kind) ==
    /\ pc' = "exit"
    /\ stage' = stage
    /\ exc' = kind
    /\ outcome' = IF Catches(kind) THEN "failed" ELSE "raised"

\* The parser sets out to receive the next field.
Goto(field) ==
    /\ pc' = field
    /\ stage' = field

\* The request function returns normally having reported `what`.
Report(what) ==
    /\ pc' = "exit"
    /\ stage' = stage
    /\ exc' = "none"
    /\ outcome' = what

\* ------------------------------------------------------------------- socket
\* recv(n): the numbers of bytes the call may return now.  recv(0) returns
\* b"" at once; otherwise the call returns between 1 and n of the bytes still
\* to come, or b"" once the peer has closed, and blocks while neither is so.
RecvCounts(n) ==
    IF n = 0 THEN {0}
    ELSE IF rest # <<>> THEN 1..Min(n, Len(rest))
    ELSE IF peerClosed THEN {0}
    ELSE {}

\* A recv() call for `field` returned the first k bytes still to come.
Recv(field, k) ==
    /\ reads' = Append(reads, [f |-> field, d |-> Take(rest, k)])
    /\ rest' = Drop(rest, k)
    /\ UNCHANGED <<resp, peerClosed>>

\* send(package): the numbers of bytes the call may accept.
SendCounts(package) ==
    {k \in 1..Len(package) : k >= Len(package) - MaxShort}

\* The bytes written to the current socket so far.
RECURSIVE Written(_)
Written(ss) ==
    IF ss = <<>> THEN <<>>
    ELSE Take(Head(ss).package, Head(ss).n) \o Written(Tail(ss))
sockOut == Written(sends)

\* --------------------------------------------------------------- file system
Exists(name) == name \in DOMAIN fs

\* open(name, "wb") succeeds unless the name is empty (FileNotFoundError).
CanCreate(name) == name # <<>>

WriteFile(f, name, content) ==
    [n \in DOMAIN f \cup {name} |-> IF n = name THEN content ELSE f[n]]

\* --------------------------------------------------------------------- main
OpFn == IF opIdx \in 1..NumOps THEN Batch[opIdx].fn ELSE "none"
OpCodeOf(fn) ==
    CASE fn = "request_file_list" -> LIST_FILES
      [] fn = "request_file_save" -> SAVE_FILE
      [] fn = "request_file_retrieve" -> RETRIEVE_FILE
      [] fn = "request_file_delete" -> DELETE_FILE

\* main() evaluates the arguments of its next request(...) call and enters
\* request(), which creates the socket (line 170).
main_call_request ==
    /\ pc = "main"
    /\ opIdx <= NumOps
    /\ Batch[opIdx].arg < Len(local_filenames)
    /\ pc' = "connect"
    /\ attempted' = attempted \cup {opIdx}
    /\ sockets' = sockets \cup {opIdx}
    /\ filename' = IF Batch[opIdx].arg < 0 THEN <<>>
                   ELSE local_filenames[Batch[opIdx].arg + 1]
    /\ UNCHANGED <<mainVars, fs, opIdx, mainAbort, connected, peerVars, sends,
                   status, name_len, file_size, sink, reads, stage, outcome, exc>>

\* local_filenames[i] raises IndexError inside main()'s try block: its except
\* clause prints the trace and main() ends.
main_IndexError ==
    /\ pc = "main"
    /\ opIdx <= NumOps
    /\ Batch[opIdx].arg >= Len(local_filenames)
    /\ pc' = "done"
    /\ mainAbort' = "IndexError"
    /\ UNCHANGED <<mainVars, fs, opIdx, attempted, sockets, connected, peerVars,
                   sends, parseVars, reads, stage, outcome, exc>>

\* The last request() call has returned: main() ends.
main_return ==
    /\ pc = "main"
    /\ opIdx > NumOps
    /\ pc' = "done"
    /\ UNCHANGED <<mainVars, fs, batchVars, sockets, connected, peerVars, sends,
                   parseVars, reads, stage, outcome, exc>>

\* ------------------------------------------------------------------ request
\* client_socket.connect(...) returns, or raises ConnectionRefusedError.
connect ==
    /\ pc = "connect"
    /\ \/ /\ pc' = "send"
          /\ connected' = TRUE
          /\ outcome' = "none"
          /\ exc' = "none"
          /\ UNCHANGED stage
       \/ /\ Raise("ConnectionRefusedError")
          /\ UNCHANGED connected
    /\ UNCHANGED <<mainVars, fs, batchVars, sockets, peerVars, sends, parseVars,
                   reads>>

\* Faulty variants: the socket is never closed; it is closed only when the
\* request function returned normally (close() after the try, no with block).
CloseSocketLeak(open, sock) == open
CloseSocketOnSuccessOnly(open, sock) ==
    IF outcome \in {"failed", "raised"} THEN open ELSE open \ {sock}

\* Leaving the with block closes the socket.
CloseSocket(open, sock) == open \ {sock}

\* request() is left: the socket is closed; a caught exception has been
\* reported and main() goes on to its next call, an uncaught one reaches
\* main()'s except clause, which ends the batch.
request_exit ==
    /\ pc = "exit"
    /\ sockets' = CloseSocket(sockets, opIdx)
    /\ connected' = FALSE
    /\ resp' = NoResponse
    /\ rest' = <<>>
    /\ peerClosed' = FALSE
    /\ sends' = <<>>
    /\ status' = 0
    /\ name_len' = 0
    /\ filename' = <<>>
    /\ file_size' = 0
    /\ sink' = NoSink
    /\ reads' = <<>>
    /\ stage' = "none"
    /\ IF outcome = "raised"
       THEN /\ pc' = "done"
            /\ mainAbort' = exc
            /\ UNCHANGED opIdx
       ELSE /\ pc' = "main"
            /\ opIdx' = opIdx + 1
            /\ UNCHANGED mainAbort
    /\ UNCHANGED <<mainVars, fs, attempted, outcome, exc>>

\* ------------------------------------------------------------- send_request
\* Faulty variant: a user id made anew for each request.
HeaderFreshId(uid, ver, op_code) ==
    PackLE(opIdx, USER_ID) \o PackLE(ver, VERSION) \o PackLE(op_code, OP)

\* The header: struct.pack("<IBB", int.from_bytes(user_id, 'big'), version, op).
Header(uid, ver, op_code) ==
    PackLE(FromBytesBig(uid), USER_ID) \o PackLE(ver, VERSION) \o PackLE(op_code, OP)

\* The package send_request builds (lines 68-79); content is the file's bytes
\* for a SAVE_FILE request.
Package(uid, ver, op_code, name, content) ==
    (IF name = <<>>
     THEN Header(uid, ver, op_code)
     ELSE Header(uid, ver, op_code) \o PackLE(Len(name), NAME_LEN) \o Utf8Encode(name))
    \o (IF op_code = SAVE_FILE
        THEN PackLE(Len(content), FILE_SIZE) \o content
        ELSE <<>>)

\* Faulty variant: a missing file is sent as an empty one.
NeedsMissingFileNever(op_code, name) == FALSE

\* get_file_bytes(filename) raises FileNotFoundError for a missing file.
NeedsMissingFile(op_code, name) == op_code = SAVE_FILE /\ ~Exists(name)

\* The UserID field of a package of which send() accepted k bytes, if whole.
WireId(package, k) == IF k >= USER_ID THEN {Take(package, USER_ID)} ELSE {}

send_request ==
    /\ pc = "send"
    /\ LET op_code == OpCodeOf(OpFn)
           package == Package(user_id, version, op_code, filename,
                              IF Exists(filename) THEN fs[filename] ELSE <<>>)
       IN  \/ /\ NeedsMissingFile(op_code, filename)
              /\ Raise("FileNotFoundError")
              /\ UNCHANGED <<sends, peerVars, wireIds>>
           \/ /\ ~NeedsMissingFile(op_code, filename)
              /\ \E k \in SendCounts(package) :
                    /\ sends' = Append(sends, [package |-> package, n |-> k])
                    /\ wireIds' = wireIds \cup WireId(package, k)
              /\ \E r \in Responses : resp' = r /\ rest' = Wire(r)
              /\ Goto("status")
              /\ UNCHANGED <<peerClosed, outcome, exc>>
           \/ /\ ~NeedsMissingFile(op_code, filename)
              /\ sends' = Append(sends, [package |-> package, n |-> 0])
              /\ Raise("OSError")
              /\ UNCHANGED <<peerVars, wireIds>>
    /\ UNCHANGED <<user_id, local_filenames, fs, batchVars, sockets, connected,
                   parseVars, reads>>

\* ------------------------------------------------------- request_file_* bodies
\* What each request function does with the status it received: "receive"
\* (go on to receive_filename) or the message it prints.
\* Faulty variant: a filename is expected after NO_USER_FILES too.
request_file_list_ReadsOnNoFiles(st) ==
    IF st \in {FILE_LIST_RETRIEVED, NO_USER_FILES} THEN "receive"
    ELSE "Wrong status code"

request_file_list(st) ==
    IF st = FILE_LIST_RETRIEVED THEN "receive"
    ELSE IF st = NO_USER_FILES THEN "No files on server"
    ELSE "Wrong status code"

request_file_save(st) ==
    IF st = SUCCESS THEN "receive"
    ELSE IF st = NO_FILE THEN "No such file on client"
    ELSE "Wrong status code"

request_file_retrieve(st) ==
    IF st = FILE_RETRIEVED THEN "receive"
    ELSE IF st = NO_FILE THEN "No such file on server"
    ELSE "Wrong status code"

\* Faulty variant: any success status is taken as the deletion's.
request_file_delete_AnySuccess(st) ==
    IF st \in {SUCCESS, FILE_RETRIEVED, FILE_LIST_RETRIEVED} THEN "receive"
    ELSE IF st = NO_FILE THEN "No such file on server"
    ELSE "Wrong status code"

request_file_delete(st) ==
    IF st = SUCCESS THEN "receive"
    ELSE IF st = NO_FILE THEN "No such file on server"
    ELSE "Wrong status code"

OnStatus(fn, st) ==
    CASE fn = "request_file_list" -> request_file_list(st)
      [] fn = "request_file_save" -> request_file_save(st)
      [] fn = "request_file_retrieve" -> request_file_retrieve(st)
      [] fn = "request_file_delete" -> request_file_delete(st)

\* Faulty variant: an empty field (end of stream) is unpacked as zero.
UnpacksEmptyAsZero(k, width) == k = width \/ k = 0

\* struct.unpack of a field of `width` bytes raises struct.error unless recv
\* returned exactly that many.
Unpacks(k, width) == k = width

\* receive_status and the branch of the request function on its result.
receive_status ==
    /\ pc = "status"
    /\ \E k \in RecvCounts(VERSION + STATUS) :
          /\ Recv("status", k)
          /\ IF ~Unpacks(k, VERSION + STATUS)
             THEN /\ Raise("struct.error")
                  /\ UNCHANGED status
             ELSE LET st == UnpackLE(Drop(Take(rest, k), VERSION))
                  IN  /\ status' = st
                      /\ IF OnStatus(OpFn, st) = "receive"
                         THEN /\ Goto("namelen")
                              /\ UNCHANGED <<outcome, exc>>
                         ELSE Report(OnStatus(OpFn, st))
    /\ UNCHANGED <<mainVars, fs, batchVars, sockets, connected, sends, name_len,
                   filename, file_size, sink>>

\* receive_filename, line 92: the 2-byte name length.
receive_filename_len ==
    /\ pc = "namelen"
    /\ \E k \in RecvCounts(NAME_LEN) :
          /\ Recv("namelen", k)
          /\ IF ~Unpacks(k, NAME_LEN)
             THEN /\ Raise("struct.error")
                  /\ UNCHANGED name_len
             ELSE /\ name_len' = UnpackLE(Take(rest, k))
                  /\ Goto("name")
                  /\ UNCHANGED <<outcome, exc>>
    /\ UNCHANGED <<mainVars, fs, batchVars, sockets, connected, sends, status,
                   filename, file_size, sink>>

\* What the request function does once receive_filename has returned.
AfterFilename(fn) ==
    CASE fn = "request_file_list" -> "receive"
      [] fn = "request_file_save" -> "Saved to server"
      [] fn = "request_file_retrieve" -> "receive"
      [] fn = "request_file_delete" -> "Deleted from server"

\* receive_filename, lines 93-94: one recv(name_len), decoded.
receive_filename_name ==
    /\ pc = "name"
    /\ \E k \in RecvCounts(name_len) :
          /\ Recv("name", k)
          /\ LET d == Utf8Decode(Take(rest, k))
             IN  IF ~d.ok
                 THEN /\ Raise("UnicodeDecodeError")
                      /\ UNCHANGED filename
                 ELSE /\ filename' = d.str
                      /\ IF AfterFilename(OpFn) = "receive"
                         THEN /\ Goto("fsize")
                              /\ UNCHANGED <<outcome, exc>>
                         ELSE Report(AfterFilename(OpFn))
    /\ UNCHANGED <<mainVars, fs, batchVars, sockets, connected, sends, status,
                   name_len, file_size, sink>>

\* --------------------------------------------------------------- receive_file
\* Faulty variant: the retrieved file is stored under the received name.
SinkNameReceived(fn, name) == name

\* The file receive_file writes: the received filename for the listing
\* (line 117), "tmp" for a retrieved file (line 147).
SinkName(fn, name) == IF fn = "request_file_list" THEN name ELSE NameTmp

\* The loop condition and the break of lines 103-106, after a recv that
\* returned k bytes with `remaining` still expected after them.
LoopGoesOn(k, remaining) == k # 0 /\ remaining > 0

\* Faulty variant: the counter is never decreased.
DecrementNever(remaining, k) == remaining

\* Line 108.
Decrement(remaining, k) == remaining - k

\* Faulty variant: each chunk replaces what the file holds.
WriteChunkOverwrites(content, chunk) == chunk

\* Line 107: file.write(chunk) appends to what the file holds.
WriteChunk(content, chunk) == content \o chunk

\* Faulty variant: a file shorter than declared is an error.
AfterFileChecksLength(fn, content) ==
    IF Len(content) < UnpackLE(reads'[4].d)
    THEN Raise("struct.error")
    ELSE Report(IF fn = "request_file_list" THEN "List of files on server"
                ELSE "Retrieved from server")

\* After receive_file: request_file_list reads the file back and decodes it
\* (lines 118-121); request_file_retrieve prints (line 148).
AfterFile(fn, content) ==
    IF fn = "request_file_list"
    THEN IF Utf8Decode(content).ok
         THEN Report("List of files on server")
         ELSE Raise("UnicodeDecodeError")
    ELSE Report("Retrieved from server")

\* receive_file, lines 99-101: the 4-byte size, then open(filename, "wb").
receive_file_open ==
    /\ pc = "fsize"
    /\ \E k \in RecvCounts(FILE_SIZE) :
          /\ Recv("fsize", k)
          /\ IF ~Unpacks(k, FILE_SIZE)
             THEN /\ Raise("struct.error")
                  /\ UNCHANGED <<fs, file_size, sink>>
             ELSE IF ~CanCreate(SinkName(OpFn, filename))
             THEN /\ Raise("FileNotFoundError")
                  /\ file_size' = UnpackLE(Take(rest, k))
                  /\ UNCHANGED <<fs, sink>>
             ELSE /\ file_size' = UnpackLE(Take(rest, k))
                  /\ sink' = SinkName(OpFn, filename)
                  /\ fs' = WriteFile(fs, sink', <<>>)
                  /\ IF file_size' > 0
                     THEN /\ Goto("chunk")
                          /\ UNCHANGED <<outcome, exc>>
                     ELSE AfterFile(OpFn, <<>>)
    /\ UNCHANGED <<mainVars, batchVars, sockets, connected, sends, status,
                   name_len, filename>>

\* receive_file, lines 103-108: one turn of the loop.
receive_file_chunk ==
    /\ pc = "chunk"
    /\ \E k \in RecvCounts(buffer_size) :
          /\ Recv("chunk", k)
          /\ fs' = WriteFile(fs, sink, WriteChunk(fs[sink], Take(rest, k)))
          /\ file_size' = Decrement(file_size, k)
          /\ IF LoopGoesOn(k, file_size')
             THEN UNCHANGED <<pc, stage, outcome, exc>>
             ELSE AfterFile(OpFn, fs'[sink])
    /\ UNCHANGED <<mainVars, batchVars, sockets, connected, sends, status,
                   name_len, filename, sink>>

\* ------------------------------------------------------------- environment
Receiving == pc \in {"status", "namelen", "name", "fsize", "chunk"}

\* A recv() call raises (ConnectionResetError, an OSError).
recv_raises ==
    /\ Receiving
    /\ Raise("OSError")
    /\ UNCHANGED <<mainVars, fs, batchVars, sockets, connected, peerVars, sends,
                   parseVars, reads>>

\* The peer closes the stream; what it had not delivered never arrives.
peer_close ==
    /\ Receiving
    /\ ~peerClosed
    /\ peerClosed' = TRUE
    /\ rest' = <<>>
    /\ UNCHANGED <<mainVars, fs, pc, batchVars, sockets, connected, resp, sends,
                   parseVars, reads, stage, outcome, exc>>

Next ==
    \/ main_call_request
    \/ main_IndexError
    \/ main_return
    \/ connect
    \/ send_request
    \/ receive_status
    \/ receive_filename_len
    \/ receive_filename_name
    \/ receive_file_open
    \/ receive_file_chunk
    \/ recv_raises
    \/ peer_close
    \/ request_exit

Spec == Init /\ [][Next]_vars

\* The client is one thread of blocking calls: a call that can return does.
ClientStep ==
    \/ main_call_request
    \/ main_IndexError
    \/ main_return
    \/ connect
    \/ send_request
    \/ receive_status
    \/ receive_filename_len
    \/ receive_filename_name
    \/ receive_file_open
    \/ receive_file_chunk
    \/ request_exit

LiveSpec == Init /\ [][Next]_vars /\ WF_vars(ClientStep)

\* =================================================================== claims
\* Helpers over the history of the current connection.
RECURSIVE DataOf(_)
DataOf(rs) == IF rs = <<>> THEN <<>> ELSE Head(rs).d \o DataOf(Tail(rs))

RECURSIVE Only(_, _)
Only(rs, field) ==
    IF rs = <<>> THEN <<>>
    ELSE (IF Head(rs).f = field THEN <<Head(rs)>> ELSE <<>>) \o Only(Tail(rs), field)

\* The bytes the client has consumed, and those of the payload among them.
Consumed == DataOf(reads)
ChunkBytes == DataOf(Only(reads, "chunk"))

\* receive_status returned a status.
StatusReceived == reads # <<>> /\ Len(reads[1].d) = VERSION + STATUS

\* The FileSize the client unpacked (the declared length L).
Declared == UnpackLE(DataOf(Only(reads, "fsize")))

\* The number of send() calls that put bytes of a request on the connection.
NumRequests == Cardinality({i \in DOMAIN sends : sends[i].n > 0})

\* The filename argument main() passes to the current call.
Arg ==
    IF opIdx \in 1..NumOps /\ Batch[opIdx].arg >= 0 /\ Batch[opIdx].arg < Len(local_filenames)
    THEN local_filenames[Batch[opIdx].arg + 1]
    ELSE <<>>

InRequest == pc \in {"connect", "send", "status", "namelen", "name", "fsize", "chunk", "exit"}

\* C1: whenever control is back in main() (after any request() call has
\* returned, on whatever exit path) or main() has ended, no socket is open;
\* and the only socket ever open is the one of the call in progress.
C1_SocketClosedOnReturn ==
    /\ pc \in {"main", "done"} => sockets = {}
    /\ sockets \subseteq {opIdx}

\* C1 witness: request() has returned after an exception raised while
\* receiving, and its socket is closed.
C1_Witness ==
    /\ pc = "main"
    /\ opIdx = 2
    /\ outcome = "failed"
    /\ exc = "struct.error"
    /\ sockets = {}

\* The calls of Batch main() can make: those before the first whose filename
\* index is beyond local_filenames (that lookup raises in main() itself).
RECURSIVE Runnable(_)
Runnable(i) ==
    IF i > NumOps \/ Batch[i].arg >= Len(local_filenames) THEN i - 1
    ELSE Runnable(i + 1)

C3_ExactlyOneRequest ==
    /\ Cardinality(sockets) <= 1
    /\ pc = "main" => sockets = {}
    /\ Len(Only(reads, "status")) <= 1
    /\ (pc = "exit" /\ connected /\ exc # "OSError") => NumRequests = 1

\* C3 amended: as above, with at most one request per connection.
C3_AtMostOneRequest ==
    /\ Cardinality(sockets) <= 1
    /\ pc = "main" => sockets = {}
    /\ InRequest => sockets = {opIdx}
    /\ Len(Only(reads, "status")) <= 1
    /\ Len(sends) <= 1
    /\ NumRequests <= 1
    /\ (pc = "exit" /\ StatusReceived) => NumRequests = 1

\* C3 witness: the second connection of the batch is the only one open and
\* has carried its request and one response header.
C3_Witness ==
    /\ opIdx = 2
    /\ sockets = {2}
    /\ pc = "exit"
    /\ NumRequests = 1
    /\ Len(Only(reads, "status")) = 1

\* C4 as stated: the file receive_file writes never holds more bytes than the
\* FileSize the client unpacked.
C4_SinkWithinDeclared ==
    sink # NoSink => Len(fs[sink]) <= Declared

\* While the receive loop goes on, fewer than L payload bytes have been
\* consumed and no read has returned b"".
C5_LoopBounded ==
    pc = "chunk" =>
        /\ Len(ChunkBytes) < Declared
        /\ \A i \in DOMAIN reads : reads[i].f = "chunk" => reads[i].d # <<>>
\* C5: the receive loop of receive_file ends as soon as L bytes have been
\* consumed or a read has returned b"" (at every moment the bound above
\* holds), and once the peer has closed the stream the operation reaches its
\* end.
C5_LoopTerminates ==
    /\ []C5_LoopBounded
    /\ (pc = "chunk" /\ peerClosed) ~> (pc = "exit")

\* C5 witness: the loop has ended on a read of b"" with less than L consumed.
C5_Witness ==
    /\ pc = "exit"
    /\ stage = "chunk"
    /\ peerClosed
    /\ reads[Len(reads)].d = <<>>
    /\ Len(ChunkBytes) = 1
    /\ Declared = 2

\* The response's fields up to FileSize were each received by one recv, and
\* the peer sent exactly the declared number of payload bytes, all delivered.
ExactDelivery ==
    /\ resp.hasFile
    /\ Len(resp.payload) = resp.size
    /\ Len(reads) >= 4
    /\ reads[3].d = resp.name
    /\ Declared = resp.size
    /\ Consumed \o rest = Wire(resp)

\* C6: when the peer delivers exactly the declared L bytes, however chunked,
\* the file written holds exactly those L bytes, in arrival order.
C6_ExactPayloadStored ==
    (pc = "exit" /\ exc = "none" /\ sink # NoSink /\ ExactDelivery) =>
        /\ fs[sink] = resp.payload
        /\ fs[sink] = ChunkBytes
        /\ Len(fs[sink]) = Declared

\* C6 witness: a retrieved file of declared size 2 arrived in two chunks.
C6_Witness ==
    /\ pc = "exit"
    /\ OpFn = "request_file_retrieve"
    /\ outcome = "Retrieved from server"
    /\ ExactDelivery
    /\ Len(Only(reads, "chunk")) = 2
    /\ fs[NameTmp] = <<10, 20>>

\* The pair (OpCode sent, Status received) of the current operation.
Pair == <<OpCodeOf(OpFn), status>>

NamePairs ==
    { <<LIST_FILES, FILE_LIST_RETRIEVED>>, <<SAVE_FILE, SUCCESS>>,
      <<RETRIEVE_FILE, FILE_RETRIEVED>>, <<DELETE_FILE, SUCCESS>> }
FilePairs ==
    { <<LIST_FILES, FILE_LIST_RETRIEVED>>, <<RETRIEVE_FILE, FILE_RETRIEVED>> }
DomainPairs ==
    { <<LIST_FILES, NO_USER_FILES>>, <<SAVE_FILE, NO_FILE>>,
      <<RETRIEVE_FILE, NO_FILE>>, <<DELETE_FILE, NO_FILE>> }

DomainMessage(pair) ==
    CASE pair = <<LIST_FILES, NO_USER_FILES>> -> "No files on server"
      [] pair = <<SAVE_FILE, NO_FILE>> -> "No such file on client"
      [] OTHER -> "No such file on server"

\* The parser set out to read the filename field / the FileSize field.
NameFieldRead == stage \in {"namelen", "name", "fsize", "chunk"}
FileFieldsRead == stage \in {"fsize", "chunk"}

\* C7 as stated, for an operation that has ended: the filename field was read
\* iff the pair is one of the four, FileSize and payload iff it is one of the
\* two, and for every other pair the unrecognised-status outcome was reported
\* with no read after the header.
C7_AsStated ==
    (pc = "exit" /\ StatusReceived) =>
        /\ NameFieldRead <=> Pair \in NamePairs
        /\ (FileFieldsRead <=> Pair \in FilePairs) \/ exc # "none"
        /\ Pair \notin NamePairs =>
              /\ outcome = "Wrong status code"
              /\ Len(reads) = 1

\* C7 amended: the reads are determined by the pair; the filename field is
\* read iff the pair is one of the four; FileSize is read only for the two
\* pairs, and always for them once receive_filename has returned; for every
\* other pair nothing is read after the header, and the outcome is the domain
\* error of the pair when it has one and the unrecognised-status outcome
\* otherwise.
C7_ReadsDeterminedByPair ==
    StatusReceived =>
        /\ NameFieldRead <=> Pair \in NamePairs
        /\ FileFieldsRead => Pair \in FilePairs
        /\ (Pair \in FilePairs /\ pc = "exit" /\ exc = "none") => FileFieldsRead
        /\ Pair \notin NamePairs =>
              /\ pc = "exit"
              /\ Len(reads) = 1
              /\ exc = "none"
              /\ outcome = IF Pair \in DomainPairs THEN DomainMessage(Pair)
                           ELSE "Wrong status code"

\* C7 witness: a Save answered with FileRetrieved (a success status of another
\* opcode) and a name and a file: unrecognised status, nothing read after the
\* header, the rest of the response abandoned.
C7_Witness ==
    /\ pc = "exit"
    /\ Pair = <<SAVE_FILE, FILE_RETRIEVED>>
    /\ outcome = "Wrong status code"
    /\ Len(reads) = 1
    /\ resp.hasFile
    /\ rest # <<>>

\* C8: a List answered with NoUserFiles reports "no files" and reads nothing
\* from the socket after the 3-byte header.
C8_NoUserFilesNoReads ==
    (OpFn = "request_file_list" /\ StatusReceived /\ status = NO_USER_FILES) =>
        /\ pc = "exit"
        /\ outcome = "No files on server"
        /\ Len(reads) = 1
        /\ Len(Consumed) = VERSION + STATUS
        /\ stage = "status"

\* C8 witness: such a List, the peer having more bytes to give.
C8_Witness ==
    /\ OpFn = "request_file_list"
    /\ status = NO_USER_FILES
    /\ pc = "exit"
    /\ outcome = "No files on server"
    /\ rest # <<>>

\* C9: a Save of a local file that does not exist fails with
\* FileNotFoundError and writes nothing to the socket.
C9_MissingFileSendsNothing ==
    (OpFn = "request_file_save" /\ connected /\ pc # "send" /\ ~Exists(Arg)) =>
        /\ pc = "exit"
        /\ outcome = "failed"
        /\ exc = "FileNotFoundError"
        /\ sends = <<>>
        /\ sockOut = <<>>

\* C9 witness: a Save of a missing file has failed on a connected socket.
C9_Witness ==
    /\ OpFn = "request_file_save"
    /\ connected
    /\ pc = "exit"
    /\ ~Exists(Arg)
    /\ Arg = NameC
    /\ exc = "FileNotFoundError"

\* The peer closed right after the header of a Save answered with Success.
SaveClosedAfterHeader ==
    /\ OpFn = "request_file_save"
    /\ StatusReceived
    /\ status = SUCCESS
    /\ peerClosed
    /\ Len(Consumed) = VERSION + STATUS

\* C10: in that case the operation ends as failed (struct.error on the empty
\* NameLen field, or the error recv itself raised) and reports no saved file.
C10_ClosedAfterHeaderFails ==
    SaveClosedAfterHeader =>
        \/ pc = "namelen"
        \/ /\ pc = "exit"
           /\ outcome = "failed"
           /\ exc \in {"struct.error", "OSError"}

\* C10 witness: the NameLen read returned b"" and the Save was reported failed.
C10_Witness ==
    /\ SaveClosedAfterHeader
    /\ pc = "exit"
    /\ Len(reads) = 2
    /\ reads[2].d = <<>>
    /\ exc = "struct.error"

\* The package the current operation handed to send(), and its opcode.
Sent == sends[1].package
SentOp == OpCodeOf(OpFn)
RequestBuilt == sends # <<>>

\* C11 as stated: the frame has the layout of its opcode for every filename
\* argument: 6 bytes for List; for the others NameLen(2) and the name's UTF-8
\* bytes follow; for Save FileSize(4) and the file's bytes follow those.
C11_FrameLayout ==
    RequestBuilt =>
        Len(Sent) = (USER_ID + VERSION + OP)
                    + (IF SentOp # LIST_FILES
                       THEN NAME_LEN + Len(Utf8Encode(Arg)) ELSE 0)
                    + (IF SentOp = SAVE_FILE
                       THEN FILE_SIZE + Len(fs[Arg]) ELSE 0)

\* C12 as stated: the UserID field on the wire is the generated bytes in the
\* same order.
C12_UserIdSameOrder ==
    RequestBuilt => Take(Sent, USER_ID) = user_id

\* C13 as stated: in a request with a name the NameLen field holds the number
\* of bytes of the name's UTF-8 encoding.
C13_NameLenCountsBytes ==
    (RequestBuilt /\ Arg # <<>>) =>
        UnpackLE(SubSeq(Sent, USER_ID + VERSION + OP + 1,
                        USER_ID + VERSION + OP + NAME_LEN))
            = Len(Utf8Encode(Arg))

\* C14: all the requests of one run carry the same UserID bytes, those of
\* the current request included.
C14_SameUserId ==
    /\ Cardinality(wireIds) <= 1
    /\ (RequestBuilt /\ sends[1].n >= USER_ID) => wireIds = {Take(Sent, USER_ID)}

\* C14 witness: the request of a later operation is on the wire after those of
\* the operations before it.
C14_Witness ==
    /\ opIdx = 4
    /\ stage = "status"
    /\ sends[1].n = Len(Sent)
    /\ wireIds = {Take(Sent, USER_ID)}

\* The state of the current operation in the machine
\* Idle -> Connected -> RequestSent -> StatusReceived -> terminal.
Phase ==
    CASE pc \in {"main", "connect", "done"} -> "Idle"
      [] pc = "send" -> "Connected"
      [] pc = "status" -> "RequestSent"
      [] pc \in {"namelen", "name", "fsize", "chunk"} -> "StatusReceived"
      [] pc = "exit" ->
            IF exc = "none" /\ outcome # "Wrong status code"
            THEN "Completed" ELSE "ReportedError"

Rank(ph) ==
    CASE ph = "Idle" -> 0
      [] ph = "Connected" -> 1
      [] ph = "RequestSent" -> 2
      [] ph = "StatusReceived" -> 3
      [] OTHER -> 4

\* An operation ends Completed only on a recognised status, and ends
\* ReportedError only on an exception or an unrecognised status.
C15_Terminal ==
    /\ Phase = "Completed" =>
          StatusReceived /\ Pair \in NamePairs \cup DomainPairs
    /\ Phase = "ReportedError" =>
          \/ exc # "none" /\ outcome = "failed"
          \/ StatusReceived /\ Pair \notin NamePairs \cup DomainPairs
    /\ Len(sends) <= 1

\* A step of an operation never goes back in the machine; the only step out
\* of a terminal state is the return of request().
C15_Step ==
    IF pc = "exit"
    THEN pc' \in {"main", "done"}
    ELSE /\ opIdx' = opIdx
         /\ Rank(Phase') >= Rank(Phase)

\* C15: each operation moves only forward through Idle, Connected,
\* RequestSent, StatusReceived to one terminal state, which it leaves only by
\* returning.
C15_ForwardOnly ==
    /\ []C15_Terminal
    /\ [][C15_Step]_vars

\* C15 witness: an operation that went through every state and completed.
C15_Witness ==
    /\ Phase = "Completed"
    /\ stage = "chunk"
    /\ outcome = "Retrieved from server"

\* receive_file ended on a read of b"" with k < L payload bytes received.
Truncated ==
    /\ pc = "exit"
    /\ stage = "chunk"
    /\ reads[Len(reads)].f = "chunk"
    /\ reads[Len(reads)].d = <<>>
    /\ Len(ChunkBytes) < Declared

\* C16 as stated: after a truncated transfer the file holds exactly the k
\* bytes received and the Retrieve or List reports its success outcome.
C16_TruncationSucceeds ==
    Truncated =>
        /\ fs[sink] = ChunkBytes
        /\ exc = "none"
        /\ outcome \in {"Retrieved from server", "List of files on server"}

\* C16 amended: the file holds exactly the k bytes received; a Retrieve
\* reports success; a List reports success when those k bytes decode as
\* UTF-8 and fails with UnicodeDecodeError when they do not.
C16_TruncationAccepted ==
    Truncated =>
        /\ fs[sink] = ChunkBytes
        /\ OpFn = "request_file_retrieve" =>
              exc = "none" /\ outcome = "Retrieved from server"
        /\ (OpFn = "request_file_list" /\ Utf8Decode(ChunkBytes).ok) =>
              exc = "none" /\ outcome = "List of files on server"
        /\ (OpFn = "request_file_list" /\ ~Utf8Decode(ChunkBytes).ok) =>
              exc = "UnicodeDecodeError" /\ outcome = "failed"

\* C16 witness: a Retrieve that got 1 of 2 declared bytes and reported
\* success.
C16_Witness ==
    /\ Truncated
    /\ OpFn = "request_file_retrieve"
    /\ Declared = 2
    /\ fs[NameTmp] = <<10>>
    /\ outcome = "Retrieved from server"

\* receive_filename has returned a name to the request function.
NameReturned ==
    \/ stage \in {"fsize", "chunk"}
    \/ pc = "exit" /\ outcome \in {"Saved to server", "Deleted from server"}

\* C17 as stated: with the peer still connected, the filename returned is
\* the whole name the server sent.
C17_WholeName ==
    (NameReturned /\ resp.hasName /\ ~peerClosed) =>
        Utf8Encode(filename) = resp.name

\* The files a step creates or changes.
Changed == {n \in DOMAIN fs' : n \notin DOMAIN fs \/ fs'[n] # fs[n]}

\* A step that changes the file system belongs to a List answered with
\* FileListRetrieved and touches the file named by the received filename, or
\* to a Retrieve answered with FileRetrieved and touches "tmp".
C18_Step ==
    fs' # fs =>
        /\ DOMAIN fs \subseteq DOMAIN fs'
        /\ StatusReceived
        /\ \/ /\ Pair = <<LIST_FILES, FILE_LIST_RETRIEVED>>
              /\ Changed = {filename}
           \/ /\ Pair = <<RETRIEVE_FILE, FILE_RETRIEVED>>
              /\ Changed = {NameTmp}

\* C18: local files are written only by (List, FileListRetrieved), to the
\* received filename, and by (Retrieve, FileRetrieved), to "tmp"; every
\* other operation and outcome leaves the file system as it was.
C18_OnlyListAndRetrieveWrite == [][C18_Step]_vars

\* C18 witness: a Retrieve of "c" answered with the name "a" wrote "tmp".
C18_Witness ==
    /\ OpFn = "request_file_retrieve"
    /\ Arg = NameC
    /\ filename = NameA
    /\ sink = NameTmp
    /\ fs[NameTmp] = <<10>>

\* C19 as stated: once send_request has returned, the whole package is on
\* the stream before the response is read.
C19_WholeRequestSent ==
    stage # "none" => sockOut = Sent

====
